---- MODULE Spec2Model ----
(***************************************************************************)
(* A model of the SNS relayer service (src/src/index.ts): the pricing      *)
(* lookup, the request handlers of the HTTP endpoints, the transaction     *)
(* assembly and relayer signing, and the encryption gateway calls.         *)
(*                                                                         *)
(* Strings are sequences of one-character strings, so that replace,        *)
(* endsWith and toLowerCase are computed as JavaScript computes them.      *)
(* Money is an integer number of ticks; one USDC is USDC_DECIMALS *        *)
(* SubMicro ticks, so that Math.floor(x * 1e6) has something to truncate.  *)
(***************************************************************************)
EXTENDS Integers, Sequences, FiniteSets, TLC

\* ------------------------------------------------------------ bounds
\* longest run of "a" put in front of a generated name (pricing inputs)
MaxPad == 9
\* longest freely generated part of a name (pricing inputs)
MaxMid == 4
\* ticks per micro-USDC: the resolution of client-supplied amounts
SubMicro == 10

\* ------------------------------------------------------------ strings
Alphabet == {"a", ".", "s", "o", "l"}

Sol == <<".", "s", "o", "l">>

SeqsUpTo(S, n) == UNION {[1..k -> S] : k \in 0..n}

Rep(c, k) == [i \in 1..k |-> c]

\* F applied to the value of v, the value being computed once however often
\* F uses it (a const binding of the source)
Once(v, F(_)) == CHOOSE o \in {F(x) : x \in {v}} : TRUE

\* String.prototype.endsWith
EndsWith(s, suf) ==
  /\ Len(s) >= Len(suf)
  /\ SubSeq(s, Len(s) - Len(suf) + 1, Len(s)) = suf

\* positions at which pat occurs in s
Occurrences(s, pat) ==
  {i \in 1..(Len(s) - Len(pat) + 1) : SubSeq(s, i, i + Len(pat) - 1) = pat}

Min(S) == CHOOSE x \in S : \A y \in S : x <= y

\* String.prototype.replace(pat, '') with a string pattern: only the FIRST
\* occurrence is removed, wherever it is
ReplaceFirst(s, pat) ==
  IF Occurrences(s, pat) = {} THEN s
  ELSE LET i == Min(Occurrences(s, pat))
       IN  SubSeq(s, 1, i - 1) \o SubSeq(s, i + Len(pat), Len(s))

LowerChar(c) ==
  CASE c = "A" -> "a"
    [] c = "S" -> "s"
    [] c = "O" -> "o"
    [] c = "L" -> "l"
    [] OTHER -> c

\* String.prototype.toLowerCase
ToLowerCase(s) == [i \in 1..Len(s) |-> LowerChar(s[i])]

\* ------------------------------------------------------------ money
\* USDC has 6 decimals (the 1e6 of index.ts:176)
USDC_DECIMALS == 1000000

\* ticks in one USDC
OneUSDC == USDC_DECIMALS * SubMicro

\* the 0.01 of the price check, in ticks
Tolerance == OneUSDC \div 100

Abs(x) == IF x < 0 THEN -x ELSE x

\* Math.floor(x * 1e6) for x >= 0: micro-units, truncated
ToLamports(x) == x \div SubMicro

\* ------------------------------------------------------------ pricing
\* an off-by-one in the first threshold
getDomainPriceStrict(domainName) ==
  LET length == Len(ReplaceFirst(domainName, Sol))
  IN  IF length < 3 THEN 10 * OneUSDC
      ELSE IF length <= 5 THEN 5 * OneUSDC
      ELSE IF length <= 8 THEN 2 * OneUSDC
      ELSE OneUSDC

getDomainPrice(domainName) ==
  LET length == Len(ReplaceFirst(domainName, Sol))
  IN  IF length <= 3 THEN 10 * OneUSDC
      ELSE IF length <= 5 THEN 5 * OneUSDC
      ELSE IF length <= 8 THEN 2 * OneUSDC
      ELSE OneUSDC

\* ------------------------------------------------------------ JS values
\* A field of a request payload: absent, a truthy non-string (123), or a string.
Undefined == [t |-> "undefined", v |-> <<>>]

NonString == [t |-> "number", v |-> <<>>]

Str(s) == [t |-> "string", v |-> s]

\* JavaScript truthiness of a field (!x is its negation)
Truthy(x) == x.t = "number" \/ (x.t = "string" /\ x.v # <<>>)

\* ------------------------------------------------------------ keys
SystemWallet == "SystemWallet"

SnsPaymentAccount == "FEEh8bMZ"

\* the base-58 strings that new PublicKey(...) accepts; "" is an absent field
\* and "not-a-key" a string that makes the constructor throw
ValidKeys == {"SystemWallet", "Buyer", "FeeWallet", "NewOwner", "FEEh8bMZ", "Owner"}

IsPublicKey(k) == k \in ValidKeys

\* getAssociatedTokenAddress(USDC_MINT, owner): the owner's USDC account
getAssociatedTokenAddress(owner) == <<"ata", owner>>

\* getDomainKeySync(domainName).pubkey: the registry address of a name; the
\* library drops a trailing ".sol" before hashing, so "ab" and "ab.sol" meet
getDomainKeySync(domainName) ==
  IF EndsWith(domainName, Sol) THEN SubSeq(domainName, 1, Len(domainName) - 4)
  ELSE domainName

\* ------------------------------------------------------------ encryption gateway
\* encryptionMiddleware.processRequest: the payload inside the envelope, or
\* a thrown DecryptionError when the envelope does not decrypt
processRequest(raw) ==
  IF raw.decryptable THEN [ok |-> TRUE, value |-> raw.plain]
  ELSE [ok |-> FALSE, value |-> raw.plain]

\* encryptionMiddleware.processResponse: the payload wrapped in an envelope
processResponse(obj) == [envelope |-> TRUE, plain |-> obj]

\* a handler that writes the payload as it is
SendJsonPlain(status, obj) == [status |-> status, body |-> obj]

\* res.status(status).json(encryptionMiddleware.processResponse(obj))
SendJson(status, obj) == [status |-> status, body |-> processResponse(obj)]

\* ------------------------------------------------------------ transactions
NoHash == [hash |-> 0, by |-> 0]

\* new Transaction()
NewTransaction ==
  [instructions |-> <<>>, feePayer |-> "", recentBlockhash |-> NoHash,
   signatures |-> <<>>]

\* createTransferInstruction(source, destination, owner, amount)
createTransferInstruction(source, destination, owner, amount) ==
  [kind |-> "transfer", source |-> source, destination |-> destination,
   owner |-> owner, payer |-> "", amount |-> amount]

\* createInstruction(NAME_PROGRAM_ID, SystemProgram, nameKey, nameOwner, payer,
\* hashedName, lamports, space): the registration; the payer signs
createInstruction(nameKey, nameOwner, payerKey, lamports) ==
  [kind |-> "register", source |-> "", destination |-> nameKey,
   owner |-> nameOwner, payer |-> payerKey, amount |-> lamports]

\* transferInstruction(NAME_PROGRAM_ID, nameKey, newOwner, currentOwner): the
\* ownership reassignment; the current owner signs
transferInstruction(nameKey, newOwnerKey, currentNameOwnerKey) ==
  [kind |-> "reassign", source |-> "", destination |-> nameKey,
   owner |-> newOwnerKey, payer |-> currentNameOwnerKey, amount |-> 0]

\* transaction.add(ix)
Add(tx, ix) == [tx EXCEPT !.instructions = Append(@, ix)]

\* the account that must sign an instruction
SignerOf(ix) == IF ix.kind = "transfer" THEN ix.owner ELSE ix.payer

RECURSIVE Dedup(_)
Dedup(s) ==
  IF s = <<>> THEN <<>>
  ELSE Once(Dedup(SubSeq(s, 1, Len(s) - 1)),
            LAMBDA rest : IF \E i \in 1..Len(rest) : rest[i] = s[Len(s)] THEN rest
                          ELSE Append(rest, s[Len(s)]))

\* the signature slots of the compiled message: the fee payer first, then the
\* signers of the instructions in order, each once
SignerKeys(tx) ==
  Dedup(<<tx.feePayer>> \o [i \in 1..Len(tx.instructions) |-> SignerOf(tx.instructions[i])])

\* transaction.sign(signer): every slot is reset, then the signer's is filled
Sign(tx, signer) ==
  Once(SignerKeys(tx),
       LAMBDA keys : [tx EXCEPT !.signatures =
                        [i \in 1..Len(keys) |->
                           [publicKey |-> keys[i], signed |-> keys[i] = signer]]])

\* ------------------------------------------------------------ serialization
KeyCode(k) ==
  CASE k = "SystemWallet" -> 1
    [] k = "Buyer" -> 2
    [] k = "FeeWallet" -> 3
    [] k = "NewOwner" -> 4
    [] k = "FEEh8bMZ" -> 5
    [] k = "Owner" -> 6
    [] OTHER -> 0

KindCode(kind) ==
  CASE kind = "transfer" -> 3
    [] kind = "register" -> 0
    [] kind = "reassign" -> 2
    [] OTHER -> 255

\* the wire form, abridged to one byte per item: the signature slots (an
\* empty slot is written as zero), the fee payer, the blockhash, the
\* instructions
WireBytes(tx) ==
  <<Len(tx.signatures)>>
  \o [i \in 1..Len(tx.signatures) |->
        IF tx.signatures[i].signed THEN 64 + KeyCode(tx.signatures[i].publicKey) ELSE 0]
  \o <<KeyCode(tx.feePayer), tx.recentBlockhash.hash, Len(tx.instructions)>>
  \o [i \in 1..Len(tx.instructions) |-> KindCode(tx.instructions[i].kind)]

\* transaction.serialize({requireAllSignatures, verifySignatures: false}):
\* throws on an empty slot only when every signature is required
Serialize(tx, requireAllSignatures) ==
  IF requireAllSignatures /\ \E i \in 1..Len(tx.signatures) : ~tx.signatures[i].signed
  THEN [ok |-> FALSE, bytes |-> <<>>]
  ELSE [ok |-> TRUE, bytes |-> WireBytes(tx)]

\* ------------------------------------------------------------ text encodings
Base58Alphabet ==
  <<
    "1", "2", "3", "4", "5", "6", "7", "8", "9", "A", "B", "C", "D", "E", "F", "G",
    "H", "J", "K", "L", "M", "N", "P", "Q", "R", "S", "T", "U", "V", "W", "X", "Y",
    "Z", "a", "b", "c", "d", "e", "f", "g", "h", "i", "j", "k", "m", "n", "o", "p",
    "q", "r", "s", "t", "u", "v", "w", "x", "y", "z"
  >>

Base64Alphabet ==
  <<
    "A", "B", "C", "D", "E", "F", "G", "H", "I", "J", "K", "L", "M", "N", "O", "P",
    "Q", "R", "S", "T", "U", "V", "W", "X", "Y", "Z", "a", "b", "c", "d", "e", "f",
    "g", "h", "i", "j", "k", "l", "m", "n", "o", "p", "q", "r", "s", "t", "u", "v",
    "w", "x", "y", "z", "0", "1", "2", "3", "4", "5", "6", "7", "8", "9", "+", "/"
  >>

\* the position of c in the alphabet, 0 when it is not a character of it
IndexOf(alphabet, c) ==
  IF \E i \in 1..Len(alphabet) : alphabet[i] = c
  THEN CHOOSE i \in 1..Len(alphabet) : alphabet[i] = c
  ELSE 0

\* text that the base-58 decoder accepts
IsBase58(text) == \A i \in 1..Len(text) : IndexOf(Base58Alphabet, text[i]) > 0

\* text that the base64 decoder accepts: whole groups, "=" only at the end
IsBase64(text) ==
  /\ Len(text) % 4 = 0
  /\ \A i \in 1..Len(text) :
       \/ IndexOf(Base64Alphabet, text[i]) > 0
       \/ text[i] = "=" /\ i > Len(text) - 2 /\ \A j \in i..Len(text) : text[j] = "="

\* number of leading elements of s equal to z
RECURSIVE LeadingCount(_, _)
LeadingCount(s, z) ==
  IF s # <<>> /\ s[1] = z THEN 1 + LeadingCount(Tail(s), z) ELSE 0

\* long division of a number written in base inBase (most significant digit
\* first) by d: the quotient in the same base, and the remainder
RECURSIVE LongDiv(_, _, _)
LongDiv(num, inBase, d) ==
  Once(num, LAMBDA n :
    IF n = <<>> THEN [q |-> <<>>, r |-> 0]
    ELSE Once(LongDiv(SubSeq(n, 1, Len(n) - 1), inBase, d), LAMBDA p :
           Once(p.r * inBase + n[Len(n)], LAMBDA acc :
                  [q |-> Append(p.q, acc \div d), r |-> acc % d])))

\* the digits of num (base inBase) in base outBase, without leading zeros
RECURSIVE ToBase(_, _, _)
ToBase(num, inBase, outBase) ==
  Once(SubSeq(num, LeadingCount(num, 0) + 1, Len(num)), LAMBDA n :
    IF n = <<>> THEN <<>>
    ELSE Once(LongDiv(n, inBase, outBase), LAMBDA dv :
                Append(ToBase(dv.q, inBase, outBase), dv.r)))

\* bs58.encode: a leading zero byte becomes a leading "1"
Base58Encode(bytes) ==
  Once(ToBase(bytes, 256, 58), LAMBDA digits :
         Rep("1", LeadingCount(bytes, 0))
         \o [i \in 1..Len(digits) |-> Base58Alphabet[digits[i] + 1]])

\* bs58.decode
Base58Decode(text) ==
  LET digits == [i \in 1..Len(text) |-> IndexOf(Base58Alphabet, text[i]) - 1]
  IN  Rep(0, LeadingCount(text, "1")) \o ToBase(digits, 58, 256)

\* the four characters of a group of one to three bytes
Base64Group(g) ==
  LET n == g[1] * 65536 + (IF Len(g) > 1 THEN g[2] * 256 ELSE 0)
           + (IF Len(g) > 2 THEN g[3] ELSE 0)
      c(k) == Base64Alphabet[k + 1]
  IN  <<c(n \div 262144), c((n \div 4096) % 64),
        IF Len(g) > 1 THEN c((n \div 64) % 64) ELSE "=",
        IF Len(g) > 2 THEN c(n % 64) ELSE "=">>

\* Buffer.toString('base64')
RECURSIVE Base64Encode(_)
Base64Encode(bytes) ==
  Once(bytes, LAMBDA b :
    IF b = <<>> THEN <<>>
    ELSE IF Len(b) <= 3 THEN Base64Group(b)
    ELSE Base64Group(SubSeq(b, 1, 3)) \o Base64Encode(SubSeq(b, 4, Len(b))))

\* the bytes of one group of four characters
Base64Ungroup(q) ==
  LET v(k) == IF q[k] = "=" THEN 0 ELSE IndexOf(Base64Alphabet, q[k]) - 1
      n == v(1) * 262144 + v(2) * 4096 + v(3) * 64 + v(4)
      all == <<n \div 65536, (n \div 256) % 256, n % 256>>
  IN  IF q[3] = "=" THEN SubSeq(all, 1, 1)
      ELSE IF q[4] = "=" THEN SubSeq(all, 1, 2)
      ELSE all

\* Buffer.from(text, 'base64')
RECURSIVE Base64Decode(_)
Base64Decode(text) ==
  IF Len(text) < 4 THEN <<>>
  ELSE Base64Ungroup(SubSeq(text, 1, 4)) \o Base64Decode(SubSeq(text, 5, Len(text)))

\* ------------------------------------------------------------ state
\* concurrent request slots
NReq == 2
\* how many of the record types of the two record loops are walked
MaxRecordTypes == 2
\* longest list of subdomains the subdomain API returns
MaxSubdomains == 1
\* the chain produces blockhashes 1..MaxHash
MaxHash == 2

ReqIds == 1..NReq

VARIABLES
  pricing,    \* the pricing lookup under test: its argument and its result
  msg,        \* per slot: the inbound request (endpoint and raw payload)
  pc,         \* per slot: the await the handler is suspended at
  loc,        \* per slot: the handler's local variables
  sent,       \* per slot: the responses written to the socket, in order
  trace,      \* per slot: gateway, upstream and assembly calls made, in order
  registry,   \* the registry addresses that have a record (external)
  chainHash   \* the latest blockhash of the chain (external)

vars == <<pricing, msg, pc, loc, sent, trace, registry, chainHash>>

EmptyBody ==
  [name |-> Undefined, domain |-> Undefined, buyerPubkey |-> "",
   domainPriceUSDC |-> 0, serviceFeeUSDC |-> 0, serviceFeeAddress |-> "",
   newOwner |-> "", pubkey |-> Undefined]

Loc0 ==
  [body |-> EmptyBody, domainName |-> <<>>, account |-> "unread",
   expectedPrice |-> 0, transaction |-> NewTransaction,
   blockhash |-> NoHash, serialized |-> <<>>,
   owner |-> "", records |-> <<>>, connectedWallets |-> {}, index |-> 0,
   subdomains |-> <<>>, failures |-> <<>>, recordsData |-> "unread",
   recordValues |-> <<>>]

\* an upstream call of the request failed: which call, and the HTTP status
\* of the failure when the upstream answered with one (0 when it threw)
Failed(l, call, status) ==
  [l EXCEPT !.failures = Append(@, [call |-> call, status |-> status])]

\* the result of a registry read is kept; a throw of it is a failure
ReadAccount(l, account) ==
  IF account = "throws" THEN Failed([l EXCEPT !.account = account], "getAccountInfo", 0)
  ELSE [l EXCEPT !.account = account]

Err(m) == [error |-> m]

\* the handler goes on to its next await
Goto(next, l, ev) == [pc |-> next, loc |-> l, reply |-> <<>>, events |-> ev]

\* a response written a second time on the way out
ReplyTwice(l, status, obj, ev) ==
  [pc |-> "done", loc |-> l,
   reply |-> <<SendJson(status, obj), SendJson(status, obj)>>, events |-> ev]

\* the handler writes a response and returns
Reply(l, status, obj, ev) ==
  [pc |-> "done", loc |-> l, reply |-> <<SendJson(status, obj)>>, events |-> ev]

\* the catch block of every handler
Catch(l, ev) == Reply(l, 500, Err("Internal server error"), ev)

Apply(r, outcome) ==
  \E o \in {outcome} :
    /\ pc' = [pc EXCEPT ![r] = o.pc]
    /\ loc' = [loc EXCEPT ![r] = o.loc]
    /\ sent' = [sent EXCEPT ![r] = @ \o o.reply]
    /\ trace' = [trace EXCEPT ![r] = @ \o o.events]
    /\ UNCHANGED <<pricing, msg, registry, chainHash>>

\* connection.getAccountInfo(key): the record, null, or a thrown RPC error
getAccountInfo(key, rpcOk) ==
  IF ~rpcOk THEN "throws" ELSE IF key \in registry THEN "record" ELSE "null"

\* a lookup that threw taken for a free name
isDomainAvailableOptimistic(account) == account # "record"

\* a name held back while another request has a purchase of its own assembled
isDomainAvailableLocked(account) ==
  /\ account = "null"
  /\ \A q \in ReqIds : loc[q].transaction = NewTransaction

\* isDomainAvailable: a thrown error is caught and reported as not available
isDomainAvailable(account) == account = "null"

\* ------------------------------------------------------------ /sns/check-domain
CheckValidate(l0, raw) ==
  LET d == processRequest(raw)
  IN  IF ~d.ok THEN Catch(l0, <<"processRequest">>)
      ELSE
        LET name == d.value.name
            l == [l0 EXCEPT !.body = d.value]
            ev == <<"processRequest", "read">>
        IN  IF ~Truthy(name) \/ name.t # "string"
            THEN Reply(l, 400, Err("Domain name is required"), ev)
            ELSE IF ~EndsWith(ToLowerCase(name.v), Sol)
            THEN Reply(l, 400, Err("Domain must end with .sol"), ev)
            ELSE Goto("check_isDomainAvailable",
                      [l EXCEPT !.domainName = ToLowerCase(name.v)], ev)

CheckRespond(l0, account) ==
  LET l == ReadAccount(l0, account)
      isAvailable == isDomainAvailable(account)
  IN  Reply(l, 200,
            [domain |-> l.domainName, available |-> isAvailable,
             priceUSDC |-> getDomainPrice(l.domainName),
             message |-> IF isAvailable THEN "Domain is available"
                         ELSE "Domain is already taken"],
            <<"getAccountInfo">>)

CheckStart(r) ==
  /\ pc[r] = "start" /\ msg[r].endpoint = "check-domain"
  /\ Apply(r, CheckValidate(loc[r], msg[r].raw))

CheckAvailable(r) ==
  /\ pc[r] = "check_isDomainAvailable"
  /\ \E rpcOk \in BOOLEAN :
       Apply(r, CheckRespond(loc[r],
                             getAccountInfo(getDomainKeySync(loc[r].domainName), rpcOk)))

\* ------------------------------------------------------------ /sns/purchase-domain
PurchaseValidate(l0, raw) ==
  LET d == processRequest(raw)
  IN  IF ~d.ok THEN Catch(l0, <<"processRequest">>)
      ELSE
        LET b == d.value
            l == [l0 EXCEPT !.body = b]
            ev == <<"processRequest", "read">>
        IN  IF \/ ~Truthy(b.name) \/ b.buyerPubkey = "" \/ b.domainPriceUSDC = 0
               \/ b.serviceFeeUSDC = 0 \/ b.serviceFeeAddress = ""
            THEN Reply(l, 400, Err("All fields are required"), ev)
            ELSE IF b.name.t # "string"
            THEN Catch(l, ev)   \* name.toLowerCase is not a function
            ELSE IF ~EndsWith(ToLowerCase(b.name.v), Sol)
            THEN Reply(l, 400, Err("Domain must end with .sol"), ev)
            ELSE Goto("purchase_isDomainAvailable",
                      [l EXCEPT !.domainName = ToLowerCase(b.name.v)], ev)

\* Math.abs(domainPriceUSDC - expectedPrice) > 0.01 is the rejection
PriceAcceptedLoose(domainPriceUSDC, expectedPrice) ==
  Abs(domainPriceUSDC - expectedPrice) <= 2 * Tolerance

PriceAccepted(domainPriceUSDC, expectedPrice) ==
  ~(Abs(domainPriceUSDC - expectedPrice) > Tolerance)

\* the registration put in front of the payments
PurchaseInstructionsRegisterFirst(b, domainName) ==
  <<createInstruction(getDomainKeySync(domainName), b.buyerPubkey, SystemWallet,
                      ToLamports(b.domainPriceUSDC)),
    createTransferInstruction(getAssociatedTokenAddress(b.buyerPubkey),
                              SnsPaymentAccount, b.buyerPubkey,
                              ToLamports(b.domainPriceUSDC)),
    createTransferInstruction(getAssociatedTokenAddress(b.buyerPubkey),
                              getAssociatedTokenAddress(b.serviceFeeAddress),
                              b.buyerPubkey, ToLamports(b.serviceFeeUSDC))>>

\* the instructions of a purchase in the order of their transaction.add calls
PurchaseInstructions(b, domainName) ==
  <<createTransferInstruction(getAssociatedTokenAddress(b.buyerPubkey),
                              SnsPaymentAccount, b.buyerPubkey,
                              ToLamports(b.domainPriceUSDC)),
    createTransferInstruction(getAssociatedTokenAddress(b.buyerPubkey),
                              getAssociatedTokenAddress(b.serviceFeeAddress),
                              b.buyerPubkey, ToLamports(b.serviceFeeUSDC)),
    createInstruction(getDomainKeySync(domainName), b.buyerPubkey, SystemWallet,
                      ToLamports(b.domainPriceUSDC))>>

\* the buyer named as the one who pays the network fee
PurchaseFeePayerBuyer(b) == b.buyerPubkey

\* transaction.feePayer = systemWallet.publicKey
PurchaseFeePayer(b) == SystemWallet

PurchaseAssemble(l0, account) ==
  LET l == ReadAccount(l0, account)
      b == l.body
      expectedPrice == getDomainPrice(l.domainName)
      lp == [l EXCEPT !.expectedPrice = expectedPrice]
      ixs == PurchaseInstructions(b, l.domainName)
      tx == [Add(Add(Add(NewTransaction, ixs[1]), ixs[2]), ixs[3])
               EXCEPT !.feePayer = PurchaseFeePayer(b)]
  IN  IF ~isDomainAvailable(account)
      THEN Reply(l, 400, Err("Domain is not available"), <<"getAccountInfo">>)
      ELSE IF ~PriceAccepted(b.domainPriceUSDC, expectedPrice)
      THEN Reply(lp, 400, Err("Invalid domain price"), <<"getAccountInfo">>)
      ELSE IF ~IsPublicKey(b.buyerPubkey) \/ ~IsPublicKey(b.serviceFeeAddress)
      THEN Catch(lp, <<"getAccountInfo">>)   \* new PublicKey throws
      ELSE Goto("purchase_getLatestBlockhash", [lp EXCEPT !.transaction = tx],
                <<"getAccountInfo">> \o [i \in 1..Len(ixs) |-> "add"])

\* await connection.getLatestBlockhash(): the chain's latest hash, or a throw
FetchBlockhash(r, l, rpcOk, next) ==
  IF ~rpcOk THEN Catch(Failed(l, "getLatestBlockhash", 0), <<"getLatestBlockhash">>)
  ELSE Goto(next, [l EXCEPT !.blockhash = [hash |-> chainHash, by |-> r]],
            <<"getLatestBlockhash">>)

\* a blockhash kept from process start is embedded instead of the fetched one
SignAndSerializeCached(l) ==
  LET tx == Sign([l.transaction EXCEPT !.recentBlockhash = [hash |-> 1, by |-> 0]],
                 SystemWallet)
      ser == Serialize(tx, FALSE)
  IN  [ok |-> ser.ok,
       loc |-> [l EXCEPT !.transaction = tx, !.serialized = ser.bytes]]

\* recentBlockhash is set, the system wallet signs, the bytes are written out
SignAndSerialize(l) ==
  Once(Sign([l.transaction EXCEPT !.recentBlockhash = l.blockhash], SystemWallet),
       LAMBDA tx :
         Once(Serialize(tx, FALSE), LAMBDA ser :
                [ok |-> ser.ok,
                 loc |-> [l EXCEPT !.transaction = tx, !.serialized = ser.bytes]]))

\* the base64 text written to both fields
PurchaseRespondBase64Only(l0) ==
  LET s == SignAndSerialize(l0)
  IN  IF ~s.ok THEN Catch(s.loc, <<"sign", "serialize">>)
      ELSE Reply(s.loc, 200,
                 [success |-> TRUE,
                  transaction |-> Base64Encode(s.loc.serialized),
                  transactionBase64 |-> Base64Encode(s.loc.serialized),
                  message |-> "Transaction created successfully. User must sign and submit."],
                 <<"sign", "serialize">>)

PurchaseRespond(l0) ==
  Once(SignAndSerialize(l0), LAMBDA s :
    IF ~s.ok THEN Catch(s.loc, <<"sign", "serialize">>)
    ELSE Reply(s.loc, 200,
               [success |-> TRUE,
                transaction |-> Base58Encode(s.loc.serialized),
                transactionBase64 |-> Base64Encode(s.loc.serialized),
                message |-> "Transaction created successfully. User must sign and submit."],
               <<"sign", "serialize">>))

PurchaseStart(r) ==
  /\ pc[r] = "start" /\ msg[r].endpoint = "purchase-domain"
  /\ Apply(r, PurchaseValidate(loc[r], msg[r].raw))

PurchaseAvailable(r) ==
  /\ pc[r] = "purchase_isDomainAvailable"
  /\ \E rpcOk \in BOOLEAN :
       Apply(r, PurchaseAssemble(loc[r],
                                 getAccountInfo(getDomainKeySync(loc[r].domainName), rpcOk)))

PurchaseBlockhash(r) ==
  /\ pc[r] = "purchase_getLatestBlockhash"
  /\ \E rpcOk \in BOOLEAN :
       Apply(r, FetchBlockhash(r, loc[r], rpcOk, "purchase_sign"))

PurchaseSign(r) ==
  /\ pc[r] = "purchase_sign"
  /\ Apply(r, PurchaseRespond(loc[r]))

\* ------------------------------------------------------------ /sns/update-domain
UpdateValidate(l0, raw) ==
  LET d == processRequest(raw)
  IN  IF ~d.ok THEN Catch(l0, <<"processRequest">>)
      ELSE
        LET b == d.value
            l == [l0 EXCEPT !.body = b]
            ev == <<"processRequest", "read">>
        IN  IF ~Truthy(b.domain) \/ b.newOwner = ""
            THEN Reply(l, 400, Err("Domain and new owner are required"), ev)
            ELSE IF b.domain.t # "string"
            THEN Catch(l, ev)   \* domain.toLowerCase is not a function
            ELSE IF ~IsPublicKey(b.newOwner)
            THEN Catch(l, ev)   \* new PublicKey throws
            ELSE Goto("update_getAccountInfo",
                      [l EXCEPT !.domainName = ToLowerCase(b.domain.v)], ev)

\* a null account taken for an existing record
DomainMissingNever(account) == FALSE

\* if (!domainAccount)
DomainMissing(account) == account = "null"

UpdateAssemble(l0, account) ==
  LET l == ReadAccount(l0, account)
      updateInstruction == transferInstruction(getDomainKeySync(l.domainName),
                                               l.body.newOwner, SystemWallet)
      tx == [Add(NewTransaction, updateInstruction) EXCEPT !.feePayer = SystemWallet]
  IN  IF account = "throws" THEN Catch(l, <<"getAccountInfo">>)
      ELSE IF DomainMissing(account)
      THEN Reply(l, 404, Err("Domain not found"), <<"getAccountInfo">>)
      ELSE Goto("update_getLatestBlockhash", [l EXCEPT !.transaction = tx],
                <<"getAccountInfo", "add">>)

UpdateRespond(l0) ==
  Once(SignAndSerialize(l0), LAMBDA s :
    IF ~s.ok THEN Catch(s.loc, <<"sign", "serialize">>)
    ELSE Reply(s.loc, 200,
               [success |-> TRUE,
                transaction |-> Base64Encode(s.loc.serialized),
                message |-> "Update transaction created successfully"],
               <<"sign", "serialize">>))

UpdateStart(r) ==
  /\ pc[r] = "start" /\ msg[r].endpoint = "update-domain"
  /\ Apply(r, UpdateValidate(loc[r], msg[r].raw))

UpdateAccount(r) ==
  /\ pc[r] = "update_getAccountInfo"
  /\ \E rpcOk \in BOOLEAN :
       Apply(r, UpdateAssemble(loc[r],
                               getAccountInfo(getDomainKeySync(loc[r].domainName), rpcOk)))

UpdateBlockhash(r) ==
  /\ pc[r] = "update_getLatestBlockhash"
  /\ \E rpcOk \in BOOLEAN :
       Apply(r, FetchBlockhash(r, loc[r], rpcOk, "update_sign"))

UpdateSign(r) ==
  /\ pc[r] = "update_sign"
  /\ Apply(r, UpdateRespond(loc[r]))

\* ------------------------------------------------------------ /sns/lookup
\* what fetch(...) of the domains API can come back with: a rejected promise,
\* a non-2xx status, a 2xx body that is not JSON, or the list of names
LookupApiOutcomes ==
  {[kind |-> "throws", status |-> 0, domains |-> <<>>],
   [kind |-> "status", status |-> 404, domains |-> <<>>],
   [kind |-> "status", status |-> 503, domains |-> <<>>],
   [kind |-> "badjson", status |-> 200, domains |-> <<>>],
   [kind |-> "ok", status |-> 200, domains |-> <<>>],
   [kind |-> "ok", status |-> 200, domains |-> << <<"a", "b">> >>]}

LookupValidate(l0, raw) ==
  LET d == processRequest(raw)
  IN  IF ~d.ok
      THEN Reply(l0, 500, [error |-> "Internal server error", details |-> "thrown"],
                 <<"processRequest">>)
      ELSE
        LET pubkey == d.value.pubkey
            l == [l0 EXCEPT !.body = d.value]
            ev == <<"processRequest", "read">>
        IN  IF ~Truthy(pubkey) \/ pubkey.t # "string"
            THEN Reply(l, 400, Err("Public key is required"), ev)
            ELSE IF ~IsPublicKey(pubkey.v[1])
            THEN Reply(l, 400,
                       [error |-> "Invalid public key format",
                        details |-> "Public key must be a valid base58 string"], ev)
            ELSE Goto("lookup_fetch", l, ev)

LookupRespond(l, api) ==
  LET formattedDomains == [i \in 1..Len(api.domains) |-> api.domains[i] \o Sol]
  IN  IF api.kind \in {"throws", "badjson"}
      THEN Reply(IF api.kind = "throws" THEN Failed(l, "fetch", 0) ELSE l,
                 500, [error |-> "Failed to connect to Bonfida API",
                       details |-> api.kind], <<"fetch">>)
      ELSE IF api.kind = "status"
      THEN Reply(Failed(l, "fetch", api.status), api.status, [error |-> "Failed to fetch domains from Bonfida API",
                                 status |-> api.status], <<"fetch">>)
      ELSE Reply(l, 200,
                 [success |-> TRUE, pubkey |-> l.body.pubkey.v[1],
                  domains |-> formattedDomains,
                  totalDomains |-> Len(formattedDomains),
                  message |-> IF Len(formattedDomains) > 0 THEN "Found domain(s)"
                              ELSE "No domains found for this public key"],
                 <<"fetch">>)

LookupStart(r) ==
  /\ pc[r] = "start" /\ msg[r].endpoint = "lookup"
  /\ Apply(r, LookupValidate(loc[r], msg[r].raw))

LookupFetch(r) ==
  /\ pc[r] = "lookup_fetch"
  /\ \E api \in LookupApiOutcomes : Apply(r, LookupRespond(loc[r], api))

\* ------------------------------------------------------------ /sns/domain-records
AllRecordTypes ==
  <<"SOL", "ETH", "BTC", "LTC", "DOGE", "URL", "IPFS", "ARWV", "TXT", "CNAME", "A", "AAAA">>

\* the record types walked, in the order of the list
RecordTypes == SubSeq(AllRecordTypes, 1, MaxRecordTypes)

\* a record map: per type, whether the key is present, and its value ("" is
\* a present but empty value)
Absent == [has |-> FALSE, v |-> ""]

Present(v) == [has |-> TRUE, v |-> v]

NoRecords == [i \in 1..Len(RecordTypes) |-> Absent]

\* what the records API can come back with: a rejected promise, a non-2xx
\* status, a body that is not JSON, a body without result, or a result map
RecordsApiOutcomes ==
  {[kind |-> k, status |-> IF k = "status" THEN 503 ELSE 0, result |-> NoRecords] :
     k \in {"throws", "status", "badjson", "noresult"}}
  \cup {[kind |-> "ok", status |-> 200, result |-> m] :
          m \in [1..Len(RecordTypes) -> {Absent, Present(""), Present("api")}]}

\* what reading one record account can come to: a throw, no account, an
\* account whose data is all zero bytes, or a value
RecordAccountOutcomes == {"throws", "null", "empty", "value"}

DomainParamValidate(l0, raw, next) ==
  LET d == processRequest(raw)
  IN  IF ~d.ok THEN Catch(l0, <<"processRequest">>)
      ELSE
        LET domain == d.value.domain
            l == [l0 EXCEPT !.body = d.value]
            ev == <<"processRequest", "read">>
        IN  IF ~Truthy(domain) \/ domain.t # "string"
            THEN Reply(l, 400, Err("Domain is required"), ev)
            ELSE IF ~EndsWith(ToLowerCase(domain.v), Sol)
            THEN Reply(l, 400, Err("Domain must end with .sol"), ev)
            ELSE Goto(next, [l EXCEPT !.domainName = ToLowerCase(domain.v)], ev)

\* the owner of every record of the registry
OwnerOf(key) == "Owner"

DomainAccount(l0, account, next) ==
  LET l == ReadAccount(l0, account)
  IN  IF account = "throws" THEN Catch(l, <<"getAccountInfo">>)
      ELSE IF account = "null"
      THEN Reply(l, 404, Err("Domain not found"), <<"getAccountInfo">>)
      ELSE Goto(next,
                [l EXCEPT !.owner = OwnerOf(getDomainKeySync(l.domainName)),
                          !.records = NoRecords,
                          !.connectedWallets = {OwnerOf(getDomainKeySync(l.domainName))}],
                <<"getAccountInfo">>)

\* Object.assign(records, recordsData.result)
ObjectAssign(records, result) ==
  [i \in 1..Len(records) |-> IF result[i].has THEN result[i] ELSE records[i]]

\* a fetch that threw or came back with a non-2xx status is a failure
FetchNoted(l, api) ==
  IF api.kind = "throws" THEN Failed(l, "fetch", 0)
  ELSE IF api.kind = "status" THEN Failed(l, "fetch", api.status)
  ELSE l

RecordsFromApi(l0, api) ==
  Goto("records_record",
       [FetchNoted(l0, api) EXCEPT
                 !.recordsData = api,
                 !.records = IF api.kind = "ok" THEN ObjectAssign(@, api.result) ELSE @,
                 !.index = 1],
       <<"fetch">>)

\* the chain value written whatever the map holds
FillRecordOverwrite(records, i, outcome) ==
  IF outcome = "value" THEN [records EXCEPT ![i] = Present("chain")] ELSE records

\* if (recordValue && !records[recordType]) records[recordType] = recordValue
FillRecord(records, i, outcome) ==
  IF outcome = "value" /\ ~(records[i].has /\ records[i].v # "")
  THEN [records EXCEPT ![i] = Present("chain")]
  ELSE records

RecordCount(records) == Cardinality({i \in 1..Len(records) : records[i].has})

\* a record account read that threw is a failure
RecordNoted(l, outcome) ==
  IF outcome = "throws" THEN Failed(l, "getAccountInfo", 0) ELSE l

RecordsStep(l0, outcome) ==
  LET l == [RecordNoted(l0, outcome) EXCEPT
                      !.records = FillRecord(@, l0.index, outcome),
                      !.recordValues = Append(@, outcome),
                      !.index = @ + 1]
  IN  IF l.index <= Len(RecordTypes) THEN Goto("records_record", l, <<"getAccountInfo">>)
      ELSE Reply(l, 200,
                 [domain |-> l.domainName, owner |-> l.owner, records |-> l.records,
                  recordCount |-> RecordCount(l.records),
                  message |-> "Domain records retrieved successfully"],
                 <<"getAccountInfo">>)

RecordsStart(r) ==
  /\ pc[r] = "start" /\ msg[r].endpoint = "domain-records"
  /\ Apply(r, DomainParamValidate(loc[r], msg[r].raw, "records_getAccountInfo"))

RecordsAccount(r) ==
  /\ pc[r] = "records_getAccountInfo"
  /\ \E rpcOk \in BOOLEAN :
       Apply(r, DomainAccount(loc[r],
                              getAccountInfo(getDomainKeySync(loc[r].domainName), rpcOk),
                              "records_fetch"))

RecordsFetch(r) ==
  /\ pc[r] = "records_fetch"
  /\ \E api \in RecordsApiOutcomes : Apply(r, RecordsFromApi(loc[r], api))

RecordsRecord(r) ==
  /\ pc[r] = "records_record"
  /\ \E outcome \in RecordAccountOutcomes : Apply(r, RecordsStep(loc[r], outcome))

\* ------------------------------------------------------------ /sns/reverse-lookup
ReverseReply(l, ev) ==
  Reply(l, 200,
        [domain |-> l.domainName, owner |-> l.owner,
         connectedWallets |-> l.connectedWallets,
         totalConnectedWallets |-> Cardinality(l.connectedWallets),
         message |-> "Reverse lookup completed with all connected wallets"],
        ev)

\* what the records API hands the reverse lookup: the kinds as above, and on
\* success the record values that parse as public keys
ReverseApiOutcomes ==
  {[kind |-> k, status |-> IF k = "status" THEN 503 ELSE 0, wallets |-> {}] :
     k \in {"throws", "status", "badjson", "noresult"}}
  \cup {[kind |-> "ok", status |-> 200, wallets |-> w] : w \in {{}, {"Buyer"}}}

\* Method 1; a throw of it leaves the outer try, past Methods 2 and 3
ReverseFromApi(l0, api) ==
  IF api.kind \in {"throws", "badjson"} THEN ReverseReply(FetchNoted(l0, api), <<"fetch">>)
  ELSE Goto("reverse_record",
            [FetchNoted(l0, api) EXCEPT !.connectedWallets = @ \cup api.wallets, !.index = 1],
            <<"fetch">>)

\* Method 2: only a SOL record that parses as a public key adds a wallet
ReverseRecordStep(l0, outcome) ==
  LET adds == outcome = "value" /\ RecordTypes[l0.index] = "SOL"
      l == [RecordNoted(l0, outcome) EXCEPT
                      !.connectedWallets = IF adds THEN @ \cup {"NewOwner"} ELSE @,
                      !.index = @ + 1]
  IN  Goto(IF l.index <= Len(RecordTypes) THEN "reverse_record" ELSE "reverse_subdomains",
           l, <<"getAccountInfo">>)

\* Method 3: the subdomain list, or nothing when the call fails
ReverseSubdomains(l, api) ==
  IF api.kind = "ok" /\ api.n > 0
  THEN Goto("reverse_subdomain", [l EXCEPT !.subdomains = Rep("sub", api.n), !.index = 1],
            <<"fetch">>)
  ELSE ReverseReply(FetchNoted(l, api), <<"fetch">>)

ReverseSubdomainStep(l0, account) ==
  LET l == [RecordNoted(l0, account) EXCEPT
                      !.connectedWallets = IF account = "record" THEN @ \cup {"FeeWallet"}
                                           ELSE @,
                      !.index = @ + 1]
  IN  IF l.index <= Len(l.subdomains) THEN Goto("reverse_subdomain", l, <<"getAccountInfo">>)
      ELSE ReverseReply(l, <<"getAccountInfo">>)

ReverseStart(r) ==
  /\ pc[r] = "start" /\ msg[r].endpoint = "reverse-lookup"
  /\ Apply(r, DomainParamValidate(loc[r], msg[r].raw, "reverse_getAccountInfo"))

ReverseAccount(r) ==
  /\ pc[r] = "reverse_getAccountInfo"
  /\ \E rpcOk \in BOOLEAN :
       Apply(r, DomainAccount(loc[r],
                              getAccountInfo(getDomainKeySync(loc[r].domainName), rpcOk),
                              "reverse_fetch"))

ReverseFetch(r) ==
  /\ pc[r] = "reverse_fetch"
  /\ \E api \in ReverseApiOutcomes : Apply(r, ReverseFromApi(loc[r], api))

ReverseRecord(r) ==
  /\ pc[r] = "reverse_record"
  /\ \E outcome \in RecordAccountOutcomes : Apply(r, ReverseRecordStep(loc[r], outcome))

ReverseSubdomainList(r) ==
  /\ pc[r] = "reverse_subdomains"
  /\ \E api \in {[kind |-> "throws", status |-> 0, n |-> 0],
                 [kind |-> "status", status |-> 503, n |-> 0]}
              \cup {[kind |-> "ok", status |-> 200, n |-> n] : n \in 0..MaxSubdomains} :
       Apply(r, ReverseSubdomains(loc[r], api))

ReverseSubdomain(r) ==
  /\ pc[r] = "reverse_subdomain"
  /\ \E account \in {"throws", "null", "record"} :
       Apply(r, ReverseSubdomainStep(loc[r], account))

\* ------------------------------------------------------------ /health
HealthRespond(l) == Reply(l, 200, [status |-> "OK", timestamp |-> "now"], <<>>)

Health(r) ==
  /\ pc[r] = "start" /\ msg[r].endpoint = "health"
  /\ Apply(r, HealthRespond(loc[r]))

\* ------------------------------------------------------------ environment
\* the registry addresses the model follows
RegistryKeys == {<<"a", "b">>, <<"a", "b", "c", "d">>}

\* the chain moves on to its next blockhash
Tick ==
  /\ chainHash < MaxHash
  /\ chainHash' = chainHash + 1
  /\ UNCHANGED <<pricing, msg, pc, loc, sent, trace, registry>>

\* somebody registers a name on the chain; the service itself never does
ExternalRegister ==
  /\ \E k \in RegistryKeys \ registry : registry' = registry \cup {k}
  /\ UNCHANGED <<pricing, msg, pc, loc, sent, trace, chainHash>>

\* ------------------------------------------------------------ requests
Mk(endpoint, decryptable, plain) ==
  [endpoint |-> endpoint, raw |-> [decryptable |-> decryptable, plain |-> plain]]

IdleMsg == Mk("none", FALSE, EmptyBody)

NameInputs ==
  {Undefined, NonString,
   Str(<<"A", "b", ".", "s", "o", "l">>),
   Str(<<"a", "b", "c", "d", ".", "s", "o", "l">>),
   Str(<<"a", "b">>)}

Cent == Tolerance

PriceInputs ==
  {0, 5 * OneUSDC}
  \cup {10 * OneUSDC + d : d \in {-2 * Cent, -Cent - 1, -Cent, 0, 1, Cent, Cent + 1}}

\* a key string is written as a string of one symbol
PubkeyInputs == {Undefined, NonString, Str(<<"not-a-key">>), Str(<<"Buyer">>)}

PurchaseMsgs ==
  {Mk("purchase-domain", TRUE,
      [EmptyBody EXCEPT !.name = n, !.buyerPubkey = b, !.domainPriceUSDC = p,
                        !.serviceFeeUSDC = f, !.serviceFeeAddress = a]) :
     n \in NameInputs, b \in {"", "not-a-key", "Buyer", "SystemWallet"},
     p \in PriceInputs, f \in {0, OneUSDC \div 4},
     a \in {"", "not-a-key", "FeeWallet"}}

UpdateMsgs ==
  {Mk("update-domain", TRUE, [EmptyBody EXCEPT !.domain = n, !.newOwner = o]) :
     n \in NameInputs, o \in {"", "not-a-key", "NewOwner"}}

CheckMsgs == {Mk("check-domain", TRUE, [EmptyBody EXCEPT !.name = n]) : n \in NameInputs}

LookupMsgs == {Mk("lookup", TRUE, [EmptyBody EXCEPT !.pubkey = k]) : k \in PubkeyInputs}

RecordsMsgs ==
  {Mk("domain-records", TRUE, [EmptyBody EXCEPT !.domain = n]) : n \in NameInputs}

ReverseMsgs ==
  {Mk("reverse-lookup", TRUE, [EmptyBody EXCEPT !.domain = n]) : n \in NameInputs}

Endpoints ==
  {"check-domain", "purchase-domain", "update-domain", "lookup", "domain-records",
   "reverse-lookup"}

\* a payload that does not decrypt under the configured key and IV
UndecryptableMsgs == {Mk(e, FALSE, EmptyBody) : e \in Endpoints}

Msgs ==
  PurchaseMsgs \cup UpdateMsgs \cup CheckMsgs \cup LookupMsgs \cup RecordsMsgs
  \cup ReverseMsgs \cup UndecryptableMsgs \cup {Mk("health", TRUE, EmptyBody)}

\* the requests of the concurrent runs: well-formed purchases and updates
ConcMsgs ==
  {Mk("purchase-domain", TRUE,
      [EmptyBody EXCEPT !.name = Str(<<"A", "b", ".", "s", "o", "l">>),
                        !.buyerPubkey = "Buyer", !.domainPriceUSDC = 10 * OneUSDC,
                        !.serviceFeeUSDC = OneUSDC \div 4,
                        !.serviceFeeAddress = "FeeWallet"]),
   Mk("update-domain", TRUE,
      [EmptyBody EXCEPT !.domain = Str(<<"a", "b", ".", "s", "o", "l">>),
                        !.newOwner = "NewOwner"])}

NoPricing == [arg |-> <<>>, result |-> 0, returned |-> FALSE]

\* ------------------------------------------------------------ one request
Init ==
  /\ pricing = NoPricing
  /\ \E m \in Msgs : msg = [r \in ReqIds |-> IF r = 1 THEN m ELSE IdleMsg]
  /\ pc = [r \in ReqIds |-> IF r = 1 THEN "start" ELSE "idle"]
  /\ loc = [r \in ReqIds |-> Loc0]
  /\ sent = [r \in ReqIds |-> <<>>]
  /\ trace = [r \in ReqIds |-> <<>>]
  /\ registry \in SUBSET RegistryKeys
  /\ chainHash = 1

Next ==
  \/ \E r \in ReqIds :
       \/ CheckStart(r) \/ CheckAvailable(r)
       \/ PurchaseStart(r) \/ PurchaseAvailable(r) \/ PurchaseBlockhash(r)
       \/ PurchaseSign(r)
       \/ UpdateStart(r) \/ UpdateAccount(r) \/ UpdateBlockhash(r) \/ UpdateSign(r)
       \/ LookupStart(r) \/ LookupFetch(r)
       \/ RecordsStart(r) \/ RecordsAccount(r) \/ RecordsFetch(r) \/ RecordsRecord(r)
       \/ ReverseStart(r) \/ ReverseAccount(r) \/ ReverseFetch(r) \/ ReverseRecord(r)
       \/ ReverseSubdomainList(r) \/ ReverseSubdomain(r)
       \/ Health(r)
  \/ Tick
  \/ ExternalRegister

Spec == Init /\ [][Next]_vars

\* the next continuation of request r: what the event loop runs once the
\* call the handler awaits has returned or thrown
Step(r) ==
  \/ CheckStart(r) \/ CheckAvailable(r)
  \/ PurchaseStart(r) \/ PurchaseAvailable(r) \/ PurchaseBlockhash(r)
  \/ PurchaseSign(r)
  \/ UpdateStart(r) \/ UpdateAccount(r) \/ UpdateBlockhash(r) \/ UpdateSign(r)
  \/ LookupStart(r) \/ LookupFetch(r)
  \/ RecordsStart(r) \/ RecordsAccount(r) \/ RecordsFetch(r) \/ RecordsRecord(r)
  \/ ReverseStart(r) \/ ReverseAccount(r) \/ ReverseFetch(r) \/ ReverseRecord(r)
  \/ ReverseSubdomainList(r) \/ ReverseSubdomain(r)
  \/ Health(r)

\* every upstream call returns or throws, and the event loop then runs the
\* continuation that waits for it
SpecLive == Init /\ [][Next]_vars /\ \A r \in ReqIds : WF_vars(Step(r))

\* ------------------------------------------------------------ concurrent requests
InitConc ==
  /\ pricing = NoPricing
  /\ msg \in [ReqIds -> ConcMsgs]
  /\ pc = [r \in ReqIds |-> "start"]
  /\ loc = [r \in ReqIds |-> Loc0]
  /\ sent = [r \in ReqIds |-> <<>>]
  /\ trace = [r \in ReqIds |-> <<>>]
  /\ registry \in SUBSET {<<"a", "b">>}
  /\ chainHash = 1

NextConc ==
  \/ \E r \in ReqIds :
       \/ PurchaseStart(r) \/ PurchaseAvailable(r) \/ PurchaseBlockhash(r)
       \/ PurchaseSign(r)
       \/ UpdateStart(r) \/ UpdateAccount(r) \/ UpdateBlockhash(r) \/ UpdateSign(r)
  \/ Tick
  \/ ExternalRegister

SpecConc == InitConc /\ [][NextConc]_vars

\* ------------------------------------------------------------ the pricing lookup
\* names: a run of "a", then any short string, then ".sol" or nothing
PriceNames ==
  {Rep("a", k) \o mid \o tail :
     k \in 0..MaxPad, mid \in SeqsUpTo(Alphabet, MaxMid), tail \in {<<>>, Sol}}

InitPrice ==
  /\ pricing \in {[arg |-> n, result |-> 0, returned |-> FALSE] : n \in PriceNames}
  /\ msg = [r \in ReqIds |-> IdleMsg]
  /\ pc = [r \in ReqIds |-> "idle"]
  /\ loc = [r \in ReqIds |-> Loc0]
  /\ sent = [r \in ReqIds |-> <<>>]
  /\ trace = [r \in ReqIds |-> <<>>]
  /\ registry = {}
  /\ chainHash = 1

PriceCall ==
  /\ ~pricing.returned
  /\ pricing' = [pricing EXCEPT !.result = getDomainPrice(pricing.arg),
                                !.returned = TRUE]
  /\ UNCHANGED <<msg, pc, loc, sent, trace, registry, chainHash>>

NextPrice == PriceCall

SpecPrice == InitPrice /\ [][NextPrice]_vars

\* ------------------------------------------------------------ properties
Done(r) == pc[r] = "done"

\* the decrypted payload of the one response of a finished request
Plain(r) == sent[r][1].body.plain

Status(r) == sent[r][1].status

Answered(r, status, message) ==
  sent[r] = <<[status |-> status, body |-> [envelope |-> TRUE, plain |-> [error |-> message]]]>>

Has(s, e) == \E i \in 1..Len(s) : s[i] = e

Count(s, e) == Cardinality({i \in 1..Len(s) : s[i] = e})

\* nothing was assembled and nothing was signed for the request
NothingAssembled(r) ==
  /\ loc[r].transaction = NewTransaction
  /\ ~Has(trace[r], "add") /\ ~Has(trace[r], "sign")

Body(r) == msg[r].raw.plain

IsPurchase(r) == msg[r].endpoint = "purchase-domain"

IsUpdate(r) == msg[r].endpoint = "update-domain"

\* C1: in every transaction a purchase assembles, the registration
\* instruction comes after every transfer instruction; a signed purchase
\* holds two transfers and the registration.
C1_RegistrationAfterTransfers ==
  \A r \in ReqIds :
    IsPurchase(r) =>
      LET ixs == loc[r].transaction.instructions
      IN  /\ \A i, j \in 1..Len(ixs) :
               (ixs[i].kind = "transfer" /\ ixs[j].kind = "register") => i < j
          /\ Has(trace[r], "sign") =>
               /\ Count([i \in 1..Len(ixs) |-> ixs[i].kind], "transfer") = 2
               /\ Count([i \in 1..Len(ixs) |-> ixs[i].kind], "register") = 1

C1_Witness ==
  \E r \in ReqIds :
    /\ IsPurchase(r) /\ Done(r) /\ Status(r) = 200
    /\ Len(loc[r].transaction.instructions) = 3
    /\ loc[r].transaction.instructions[3].kind = "register"

\* the price of the table for a name of n characters, n >= 1
TablePrice(n) ==
  IF n <= 3 THEN 10 * OneUSDC
  ELSE IF n <= 5 THEN 5 * OneUSDC
  ELSE IF n <= 8 THEN 2 * OneUSDC
  ELSE OneUSDC

\* C2: for a name ending in ".sol", getDomainPrice returns the price of the
\* bucket of the length of the name without that suffix: 1-3 gives 10.0,
\* 4-5 gives 5.0, 6-8 gives 2.0, 9 or more gives 1.0.
C2_PriceTable ==
  (pricing.returned /\ EndsWith(pricing.arg, Sol) /\ Len(pricing.arg) > Len(Sol))
    => pricing.result = TablePrice(Len(pricing.arg) - Len(Sol))

\* a name at the threshold 5 that also holds ".sol" in its middle
C2_Witness ==
  /\ pricing.returned
  /\ EndsWith(pricing.arg, Sol)
  /\ Len(pricing.arg) - Len(Sol) = 5
  /\ Cardinality(Occurrences(pricing.arg, Sol)) = 2
  /\ pricing.result = 5 * OneUSDC

\* the price of a purchase request differs from the expected price of its
\* name by more than 0.01
PriceOff(r) ==
  /\ IsPurchase(r)
  /\ Body(r).name.t = "string"
  /\ Abs(Body(r).domainPriceUSDC - getDomainPrice(ToLowerCase(Body(r).name.v))) > Tolerance

\* a purchase request that decrypts, carries all five fields and names a
\* string ending in ".sol"
PurchaseWellFormed(r) ==
  /\ IsPurchase(r)
  /\ msg[r].raw.decryptable
  /\ Body(r).name.t = "string"
  /\ Body(r).buyerPubkey # "" /\ Body(r).domainPriceUSDC # 0
  /\ Body(r).serviceFeeUSDC # 0 /\ Body(r).serviceFeeAddress # ""
  /\ EndsWith(ToLowerCase(Body(r).name.v), Sol)

\* C3 as stated, read in its favour for well-formed requests only: every
\* purchase request whose price is off by more than 0.01 is answered 400
\* 'Invalid domain price'.
C3_Original ==
  \A r \in ReqIds :
    (Done(r) /\ PurchaseWellFormed(r) /\ PriceOff(r)) =>
      /\ Answered(r, 400, "Invalid domain price")
      /\ NothingAssembled(r)

\* C3: a purchase request whose price is off by more than 0.01 never has a
\* transaction assembled or signed; when it decrypts, carries all five
\* fields, names a string ending in ".sol" and the availability check
\* found the name free, it is answered 400 'Invalid domain price'.
C3_PriceMismatchRejected ==
  \A r \in ReqIds :
    PriceOff(r) =>
      /\ NothingAssembled(r)
      /\ (Done(r) /\ PurchaseWellFormed(r) /\ loc[r].account = "null")
           => Answered(r, 400, "Invalid domain price")

C3_Witness ==
  \E r \in ReqIds :
    /\ Done(r) /\ PriceOff(r)
    /\ Body(r).domainPriceUSDC = 10 * OneUSDC - 2 * Cent
    /\ Answered(r, 400, "Invalid domain price")

\* the name of an update request has no record in the registry
NoRecordFor(r) ==
  /\ IsUpdate(r)
  /\ Body(r).domain.t = "string"
  /\ getDomainKeySync(ToLowerCase(Body(r).domain.v)) \notin registry

\* C4 as stated, read in its favour for requests that decrypt and carry
\* both fields: every update request for a name without a record is answered
\* 404 'Domain not found'.
C4_Original ==
  \A r \in ReqIds :
    (Done(r) /\ NoRecordFor(r) /\ msg[r].raw.decryptable /\ Body(r).newOwner # "") =>
      /\ Answered(r, 404, "Domain not found")
      /\ NothingAssembled(r)

\* C4: an update request that decrypts, carries a string domain and a new
\* owner that parses as a public key, and whose registry lookup returns no
\* record, is answered 404 'Domain not found', and nothing is assembled or
\* signed for it.
C4_MissingDomainNotFound ==
  \A r \in ReqIds :
    ( /\ IsUpdate(r) /\ Done(r)
      /\ msg[r].raw.decryptable
      /\ Body(r).domain.t = "string" /\ Body(r).domain.v # <<>>
      /\ IsPublicKey(Body(r).newOwner)
      /\ loc[r].account = "null" )
    => /\ Answered(r, 404, "Domain not found")
       /\ NothingAssembled(r)

C4_Witness ==
  \E r \in ReqIds :
    /\ IsUpdate(r) /\ Done(r) /\ NoRecordFor(r)
    /\ loc[r].account = "null"
    /\ Answered(r, 404, "Domain not found")

\* C5: a request whose payload does not decrypt is answered with a
\* 400-class status, on every endpoint.
C5_DecryptFailureIsClientError ==
  \A r \in ReqIds :
    (Done(r) /\ msg[r].endpoint \in Endpoints /\ ~msg[r].raw.decryptable) =>
      \A i \in 1..Len(sent[r]) : sent[r][i].status \in 400..499

IsEnvelope(body) == DOMAIN body = {"envelope", "plain"} /\ body.envelope

Signed(r) == Has(trace[r], "sign")

\* the position of the one blockhash fetch in the calls of a request
FetchAt(r) == CHOOSE i \in 1..Len(trace[r]) : trace[r][i] = "getLatestBlockhash"

\* C7: in purchase-domain and update-domain the blockhash is fetched after
\* every instruction was added, the call after the fetch is the signing,
\* a request fetches at most once and signs at most one transaction, and
\* the blockhash in a request's transaction is the one that request fetched.
C7_BlockhashLastAndOwn ==
  \A r \in ReqIds :
    /\ Count(trace[r], "getLatestBlockhash") <= 1
    /\ Count(trace[r], "sign") <= 1
    /\ Signed(r) => Count(trace[r], "getLatestBlockhash") = 1
    /\ Has(trace[r], "getLatestBlockhash") =>
         /\ \A i \in 1..Len(trace[r]) : trace[r][i] = "add" => i < FetchAt(r)
         /\ Count(trace[r], "add") = Len(loc[r].transaction.instructions)
         /\ FetchAt(r) < Len(trace[r]) => trace[r][FetchAt(r) + 1] = "sign"
    /\ loc[r].blockhash # NoHash => loc[r].blockhash.by = r
    /\ loc[r].transaction.recentBlockhash # NoHash =>
         /\ Signed(r)
         /\ loc[r].transaction.recentBlockhash = loc[r].blockhash
         /\ loc[r].transaction.recentBlockhash.by = r

\* two requests in flight together, each answered with its own transaction,
\* the two fetched at different blockhashes
C7_Witness ==
  \E r, q \in ReqIds :
    /\ r # q /\ Done(r) /\ Done(q)
    /\ Status(r) = 200 /\ Status(q) = 200
    /\ IsPurchase(r) /\ IsUpdate(q)
    /\ loc[r].transaction.recentBlockhash.hash # loc[q].transaction.recentBlockhash.hash

\* the serialized bytes inside the payload of a success response
PayloadBytes(r) ==
  Base64Decode(IF IsPurchase(r) THEN Plain(r).transactionBase64 ELSE Plain(r).transaction)

\* the signature bytes of a serialized transaction
SlotBytes(bytes) == SubSeq(bytes, 2, 1 + bytes[1])

Returned(r) == (IsPurchase(r) \/ IsUpdate(r)) /\ Done(r) /\ Status(r) = 200

\* C8: every payload purchase-domain or update-domain returns has the system
\* wallet as fee payer and exactly one filled signature slot, the system
\* wallet's; a transaction that reached signing is always returned, empty
\* slots or not.
C8_RelayerOnlySignature ==
  \A r \in ReqIds :
    /\ Returned(r) =>
         LET tx == loc[r].transaction
             bytes == PayloadBytes(r)
         IN  /\ tx.feePayer = SystemWallet
             /\ tx.signatures # <<>>
             /\ tx.signatures[1].publicKey = SystemWallet
             /\ \A i \in 1..Len(tx.signatures) :
                  tx.signatures[i].signed <=> tx.signatures[i].publicKey = SystemWallet
             /\ bytes = WireBytes(tx)
             /\ Count(SlotBytes(bytes), 0) = Len(SlotBytes(bytes)) - 1
             /\ Has(SlotBytes(bytes), 64 + KeyCode(SystemWallet))
             /\ bytes[2 + bytes[1]] = KeyCode(SystemWallet)
    /\ (Done(r) /\ Signed(r)) => Status(r) = 200

\* a purchase returned with the buyer's slot empty
C8_Witness ==
  \E r \in ReqIds :
    /\ Returned(r) /\ IsPurchase(r)
    /\ Len(loc[r].transaction.signatures) = 2
    /\ loc[r].transaction.signatures[2] = [publicKey |-> "Buyer", signed |-> FALSE]

\* the payload carries a base-58 text and a base64 text of the same bytes
BothEncodings(p) ==
  /\ {"transaction", "transactionBase64"} \subseteq DOMAIN p
  /\ IsBase58(p.transaction) /\ IsBase64(p.transactionBase64)
  /\ Base58Decode(p.transaction) = Base64Decode(p.transactionBase64)

C10_AmountIsExpectedPrice ==
  \A r \in ReqIds :
    (IsPurchase(r) /\ Signed(r)) =>
      loc[r].transaction.instructions[1].amount
        = ToLamports(getDomainPrice(loc[r].domainName))

\* the statuses a request with failed upstream calls may end with: 500, or
\* the status an upstream answered with
FailureStatuses(r) ==
  {500} \cup {loc[r].failures[i].status :
                i \in {j \in 1..Len(loc[r].failures) : loc[r].failures[j].status # 0}}

\* C11: a request during which a registry RPC or a record-lookup HTTP call
\* failed ends with the upstream's status or with 500, never with a success
\* or a 400, and the call that failed is the last one of its kind.
C11_UpstreamFailureSurfaced ==
  \A r \in ReqIds :
    (Done(r) /\ loc[r].failures # <<>>) =>
      /\ Status(r) \in FailureStatuses(r)
      /\ Status(r) \notin {200, 400}

\* the endpoints that take a domain name, and the field that carries it
NameEndpoints ==
  {"check-domain", "purchase-domain", "update-domain", "domain-records", "reverse-lookup"}

NameOf(r) ==
  IF msg[r].endpoint \in {"check-domain", "purchase-domain"} THEN Body(r).name
  ELSE Body(r).domain

\* the request names a string that does not end in ".sol" once lowercased
WrongSuffix(r) ==
  /\ msg[r].endpoint \in NameEndpoints
  /\ msg[r].raw.decryptable
  /\ NameOf(r).t = "string"
  /\ ~EndsWith(ToLowerCase(NameOf(r).v), Sol)

\* C12: on every endpoint that takes a domain name, a request whose name
\* does not end in ".sol" after lowercasing makes no registry call, has no
\* transaction assembled and is answered with status 400.
C12_WrongSuffixRejected ==
  \A r \in ReqIds :
    WrongSuffix(r) =>
      /\ ~Has(trace[r], "getAccountInfo")
      /\ NothingAssembled(r)
      /\ Done(r) => Status(r) = 400

\* C13: the relayer signs a purchase only after the registry lookup of the
\* same request returned no record; when the lookup returned a record or
\* threw, nothing is assembled or signed and the request is answered 400
\* 'Domain is not available'.
C13_SignedOnlyIfLookupEmpty ==
  \A r \in ReqIds :
    IsPurchase(r) =>
      /\ Signed(r) => /\ loc[r].account = "null"
                      /\ Has(trace[r], "getAccountInfo")
      /\ loc[r].account \in {"record", "throws"} =>
           /\ NothingAssembled(r)
           /\ Done(r) /\ Answered(r, 400, "Domain is not available")

C13_Witness ==
  \E r \in ReqIds :
    /\ IsPurchase(r) /\ Returned(r) /\ Signed(r)
    /\ loc[r].account = "null"
    /\ Count(trace[r], "getAccountInfo") = 1

\* the name a purchase request asks for, as a registry key
PurchaseTarget(r) == getDomainKeySync(ToLowerCase(Body(r).name.v))

\* C14: nothing shared between requests holds a purchase back: a purchase
\* whose own lookup found no record is never answered 'Domain is not
\* available', whatever the other requests in flight have assembled or
\* signed, so two purchases of one unregistered name can both be signed.
C14_CheckAndAssemblyNotAtomic ==
  \A r \in ReqIds :
    (IsPurchase(r) /\ Done(r) /\ loc[r].account = "null") =>
      ~Answered(r, 400, "Domain is not available")

\* two purchases of the same name, not registered even now, both answered
\* with a transaction that the relayer signed
C14_Witness ==
  \E r, q \in ReqIds :
    /\ r # q
    /\ IsPurchase(r) /\ IsPurchase(q)
    /\ PurchaseTarget(r) = PurchaseTarget(q)
    /\ PurchaseTarget(r) \notin registry
    /\ Returned(r) /\ Returned(q)
    /\ Signed(r) /\ Signed(q)
    /\ loc[r].transaction.instructions[3].kind = "register"
    /\ loc[q].transaction.instructions[3] = loc[r].transaction.instructions[3]

IsRecords(r) == msg[r].endpoint = "domain-records"

\* a domain-records request that went through both sources and was answered
RecordsAnswered(r) ==
  IsRecords(r) /\ Done(r) /\ Len(loc[r].recordValues) = Len(RecordTypes)

\* what the records API gave for the i-th record type
ApiValue(r, i) ==
  IF loc[r].recordsData.kind = "ok" THEN loc[r].recordsData.result[i] ELSE Absent

\* what the chain gave for the i-th record type
ChainValue(r, i) ==
  IF loc[r].recordValues[i] = "value" THEN Present("chain") ELSE Absent

\* C15 as stated: every record type the API result carries keeps the API's
\* value, and the chain fills the types the API result does not carry.
C15_Original ==
  \A r \in ReqIds :
    RecordsAnswered(r) =>
      \A i \in 1..Len(RecordTypes) :
        Plain(r).records[i] = IF ApiValue(r, i).has THEN ApiValue(r, i)
                              ELSE ChainValue(r, i)

\* C15: in domain-records the API result is merged first and the chain
\* values after it; a non-empty value from the API is never overwritten,
\* the chain value fills a type that the API left absent or empty, and a
\* failure of either source leaves the other's values in a 200 answer.
C15_FirstNonEmptyWins ==
  \A r \in ReqIds :
    /\ (IsRecords(r) /\ Done(r) /\ Len(loc[r].recordValues) > 0) => RecordsAnswered(r)
    /\ RecordsAnswered(r) =>
         /\ Status(r) = 200
         /\ \A i \in 1..Len(RecordTypes) :
              Plain(r).records[i] =
                IF ApiValue(r, i).has /\ ApiValue(r, i).v # "" THEN ApiValue(r, i)
                ELSE IF ChainValue(r, i).has THEN ChainValue(r, i)
                ELSE ApiValue(r, i)

C15_Witness ==
  \E r \in ReqIds :
    /\ RecordsAnswered(r) /\ Status(r) = 200
    /\ loc[r].recordsData.kind = "ok"
    /\ ApiValue(r, 1) = Present("api") /\ ApiValue(r, 2) = Absent
    /\ loc[r].recordValues[1] = "value" /\ loc[r].recordValues[2] = "value"
    /\ Plain(r).records[1] = Present("api") /\ Plain(r).records[2] = Present("chain")

\* C16: every request ends with exactly one response: a handler that has
\* not returned has sent nothing, one that has returned has sent one
\* response, nothing is sent after it, and every request that came in is
\* answered in the end.
C16_ExactlyOneResponse ==
  /\ [](\A r \in ReqIds : Len(sent[r]) = IF Done(r) THEN 1 ELSE 0)
  /\ [][\A r \in ReqIds : Done(r) => (Done(r)' /\ sent'[r] = sent[r])]_vars
  /\ \A r \in ReqIds : (pc[r] = "start") ~> (Done(r) /\ Len(sent[r]) = 1)

\* a request answered once after upstream calls of which some failed
C16_Witness ==
  \E r \in ReqIds :
    /\ Done(r) /\ Len(sent[r]) = 1
    /\ msg[r].endpoint = "reverse-lookup"
    /\ Count(trace[r], "fetch") = 2
    /\ loc[r].failures # <<>>

====
